---- MODULE Spec2Model ----
(***************************************************************************)
(* Model of the ocr-ai orchestrator (src/src/ocr.ts), its file loaders     *)
(* (src/src/loaders/file.loader.ts) and the provider adapters              *)
(* (src/src/providers, src/unnamed/part_002, src/unnamed/part_003).        *)
(*                                                                         *)
(* One OcrAI object is modelled: its two fields (config, provider), the    *)
(* extract calls in flight on it, each with its position in the async      *)
(* code (the awaits are the only suspension points), and the clock read    *)
(* by Date.now().  Strings that the code inspects character by character   *)
(* (backend response texts) are sequences of one-character strings.        *)
(***************************************************************************)
EXTENDS Integers, Sequences, FiniteSets, TLC

VARIABLES
    ctor,       \* outcome of `new OcrAI(config)`: "unbuilt", "ok" or "threw"
    config,     \* OcrAI.config   (ocr.ts:32)
    provider,   \* OcrAI.provider (ocr.ts:31): the active adapter instance
    created,    \* adapter instances built so far; gives each instance its identity
    switches,   \* setProvider calls made so far
    setResult,  \* how the latest setProvider call ended: "none", "returned", "threw"
    now,        \* the wall clock read by Date.now()
    calls,      \* the extract calls issued on the object, by call slot
    parse,      \* one use of BaseProvider.parseJsonResponse on a backend text
    adapter,    \* one use of an adapter method: the request sent, the outcome
    retry,      \* one call of OcrAIPromise.extractWithRetry
    batch,      \* one call of OcrAIPromise.extractMany / extractBatch
    callback    \* one call of OcrAIPromise.extract / extractFromBuffer /
                \* extractFromBase64, with or without a callback

\* The fields of the OcrAI object and the calls on it
ocrVars == <<ctor, config, provider, created, switches, setResult, now, calls>>

\* The uses of the parts around it
partVars == <<parse, adapter, retry, batch, callback>>

vars == <<ctor, config, provider, created, switches, setResult, now, calls,
          parse, adapter, retry, batch, callback>>

-----------------------------------------------------------------------------
(* Bounds of the model *)

MaxCalls == 1
MaxSwitches == 2
MaxClock == 1
MaxStrLen == 3
MaxRetries == 2
MaxItems == 2

CallIds == 1..MaxCalls

-----------------------------------------------------------------------------
(* JavaScript values *)

Undefined == "undefined"

\* `!x` on a string-or-undefined value: undefined and '' are falsy.
Falsy(x) == x = Undefined \/ x = ""

\* `a || b`
OrElse(a, b) == IF Falsy(a) THEN b ELSE a

\* String.prototype.trim() === '' for the credential strings of the model:
\* a string made only of whitespace trims to the empty string.
TrimsToEmpty(s) == s \in {"", " ", "  "}

-----------------------------------------------------------------------------
(* Providers: types/index.ts:4 and the adapters' DEFAULT_MODEL constants *)

AIProviders == {"gemini", "openai", "claude", "grok", "vertex"}

\* A variant with one default for every adapter
DefaultModelAllGemini(name) == "gemini-1.5-flash"

DefaultModel(name) ==
    CASE name = "gemini" -> "gemini-1.5-flash"
      [] name = "openai" -> "gpt-4o"
      [] name = "claude" -> "claude-sonnet-4-20250514"
      [] name = "grok"   -> "grok-2-vision-1212"
      [] name = "vertex" -> "gemini-2.0-flash"

NoProvider == [id |-> 0, name |-> "none", model |-> "none"]

\* config.vertexConfig left out of the configuration
NoVertexConfig == [undefined |-> TRUE]

\* BaseProvider constructor: rejects an empty or whitespace-only key.
BaseProviderAccepts(apiKey) == ~(Falsy(apiKey) \/ TrimsToEmpty(apiKey))

\* The vertex client is built by the third-party GoogleGenAI constructor from
\* config.project and config.location; VertexProvider itself checks neither.
\* With both present the client is built; otherwise whether the third-party
\* constructor throws is not decided by this repository.
VertexOutcomes(vertexConfig) ==
    IF ~Falsy(vertexConfig.project) /\ ~Falsy(vertexConfig.location)
    THEN {"built"}
    ELSE {"built", "threw"}

\* OcrAI.createProvider: the set of possible outcomes for a configuration.
\* Each outcome is "threw" or the name and model of the adapter built.
CreateProvider(cfg) ==
    IF cfg.provider \notin AIProviders THEN {[threw |-> TRUE, name |-> "none", model |-> "none"]}
    ELSE IF cfg.provider = "vertex" THEN
        IF cfg.vertexConfig = NoVertexConfig
        THEN {[threw |-> TRUE, name |-> "none", model |-> "none"]}
        ELSE {[threw |-> o = "threw",
               name |-> IF o = "threw" THEN "none" ELSE "vertex",
               model |-> IF o = "threw" THEN "none"
                         ELSE OrElse(cfg.model, DefaultModel("vertex"))]
                 : o \in VertexOutcomes(cfg.vertexConfig)}
    ELSE IF Falsy(cfg.apiKey) \/ ~BaseProviderAccepts(cfg.apiKey)
        THEN {[threw |-> TRUE, name |-> "none", model |-> "none"]}
        ELSE {[threw |-> FALSE, name |-> cfg.provider,
               model |-> OrElse(cfg.model, DefaultModel(cfg.provider))]}

-----------------------------------------------------------------------------
(* File loaders: src/src/loaders/file.loader.ts *)

\* Property lookup `table[key]` on a plain JavaScript object literal: an own
\* key gives its value, a key inherited from Object.prototype gives that
\* inherited member (a truthy value that is no file type), any other key
\* gives undefined.
ObjectPrototypeKeys == {"constructor", "toString", "valueOf"}
Inherited == "[inherited member]"
Lookup(table, key) ==
    IF key \in DOMAIN table THEN table[key]
    ELSE IF key \in ObjectPrototypeKeys THEN Inherited
    ELSE Undefined

MIME_TO_FILE_TYPE ==
    [m \in {"application/pdf", "image/jpeg", "image/png", "image/gif", "image/webp",
            "image/bmp", "image/tiff", "text/plain", "text/markdown", "text/csv",
            "application/json", "application/xml", "text/html"} |->
        IF m = "application/pdf" THEN "pdf"
        ELSE IF m \in {"image/jpeg", "image/png", "image/gif", "image/webp",
                       "image/bmp", "image/tiff"} THEN "image"
        ELSE "text"]

MIME_TYPES ==
    (".pdf" :> "application/pdf") @@
    (".jpg" :> "image/jpeg") @@ (".jpeg" :> "image/jpeg") @@ (".png" :> "image/png") @@
    (".gif" :> "image/gif") @@ (".webp" :> "image/webp") @@ (".bmp" :> "image/bmp") @@
    (".tiff" :> "image/tiff") @@ (".tif" :> "image/tiff") @@
    (".txt" :> "text/plain") @@ (".md" :> "text/markdown") @@ (".csv" :> "text/csv") @@
    (".json" :> "application/json") @@ (".xml" :> "application/xml") @@
    (".html" :> "text/html") @@ (".htm" :> "text/html")

FILE_TYPE_CATEGORIES ==
    [e \in DOMAIN MIME_TYPES |->
        IF e = ".pdf" THEN "pdf"
        ELSE IF e \in {".jpg", ".jpeg", ".png", ".gif", ".webp", ".bmp", ".tiff", ".tif"}
             THEN "image"
        ELSE "text"]

\* A file name is its base and its extension (path.basename / path.extname).
Bases == {"a", "b"}
Exts == {".pdf", ".PNG", ".xyz"}
FileNames == [base : Bases, ext : Exts]

\* String.prototype.toLowerCase() on the extensions of the model
ToLowerCase(ext) == IF ext = ".PNG" THEN ".png" ELSE ext

NoFile == [undefined |-> TRUE]
NoError == "none"
Loaded(f) == [ok |-> TRUE, file |-> f, error |-> NoError]
LoadError(msg) == [ok |-> FALSE, file |-> NoFile, error |-> msg]

\* loadFile (file.loader.ts:76-121). fsOutcome is what the file system answers:
\* "ENOENT" (fs.access fails), "EISDIR" (the path is no file), "EIO" (fs.readFile
\* fails) or "ok".
FsOutcomes == {"ENOENT", "EISDIR", "EIO", "ok"}
loadFile(name, fsOutcome) ==
    LET ext == ToLowerCase(name.ext)
        mimeType == Lookup(MIME_TYPES, ext)
        fileType == Lookup(FILE_TYPE_CATEGORIES, ext)
    IN  IF fsOutcome = "ENOENT" THEN LoadError("File not found")
        ELSE IF fsOutcome = "EISDIR" THEN LoadError("Path is not a file")
        ELSE IF Falsy(mimeType) \/ Falsy(fileType) THEN LoadError("Unsupported file type")
        ELSE IF fsOutcome = "EIO" THEN LoadError("EIO: read failed")
        ELSE Loaded([name |-> name, type |-> fileType, mimeType |-> mimeType])

\* loadFileFromBuffer (file.loader.ts:126-152), called without a mimeType
loadFileFromBuffer(name) ==
    LET ext == ToLowerCase(name.ext)
        detectedMimeType == Lookup(MIME_TYPES, ext)
        fileType == Lookup(FILE_TYPE_CATEGORIES, ext)
    IN  IF Falsy(detectedMimeType) \/ Falsy(fileType) THEN LoadError("Unsupported file type")
        ELSE Loaded([name |-> name, type |-> fileType, mimeType |-> detectedMimeType])

\* loadFileFromBase64 (file.loader.ts:157-185), called without a mimeType.
\* Buffer.from(data, 'base64') never throws, so the outcome depends on the name.
loadFileFromBase64(name) ==
    LET ext == ToLowerCase(name.ext)
        detectedMimeType == Lookup(MIME_TYPES, ext)
        fileType == Lookup(FILE_TYPE_CATEGORIES, ext)
    IN  IF Falsy(detectedMimeType) \/ Falsy(fileType) THEN LoadError("Unsupported file type")
        ELSE Loaded([name |-> name, type |-> fileType, mimeType |-> detectedMimeType])

\* isUrl (file.loader.ts:219-221)
Schemes == {"", "http://", "https://"}
isUrl(source) == source.scheme = "http://" \/ source.scheme = "https://"

\* What the server answers to fetch(url): the fetch rejects ("network"), the
\* status is not ok ("status"), or a response with a Content-Type header
\* (parameters already cut off, '' when absent) and an optional file name
\* from Content-Disposition.
ContentTypes == {"", "application/pdf", "constructor"}
NoName == [undefined |-> TRUE]
Dispositions == {NoName, [base |-> "cd", ext |-> ".txt"]}
HttpAnswers ==
    {[kind |-> "network", contentType |-> "", disposition |-> NoName],
     [kind |-> "status", contentType |-> "", disposition |-> NoName]}
    \cup [kind : {"ok"}, contentType : ContentTypes, disposition : Dispositions]

\* loadFileFromUrl (file.loader.ts:226-281)
loadFileFromUrl(source, answer) ==
    LET fileName == IF answer.disposition # NoName THEN answer.disposition
                    ELSE [base |-> source.base, ext |-> source.ext]
        byHeader == Lookup(MIME_TO_FILE_TYPE, answer.contentType)
        ext == ToLowerCase(fileName.ext)
        fileType == IF Falsy(byHeader) THEN Lookup(FILE_TYPE_CATEGORIES, ext) ELSE byHeader
        mimeType == IF Falsy(byHeader) THEN Lookup(MIME_TYPES, ext) ELSE answer.contentType
    IN  IF answer.kind = "network" THEN LoadError("fetch failed")
        ELSE IF answer.kind = "status" THEN LoadError("Failed to fetch URL")
        ELSE IF Falsy(fileType) \/ Falsy(mimeType)
             THEN LoadError("Unsupported file type from URL")
        ELSE Loaded([name |-> fileName, type |-> fileType, mimeType |-> mimeType])

-----------------------------------------------------------------------------
(* Adapters: BaseProvider (gemini.provider.ts:136-230) and the five variants *)

\* BaseProvider.supportsFileType, and ClaudeProvider's override, which is the same
supportsFileType(name, type) == type \in {"pdf", "image", "text"}

\* White space removed by String.prototype.trim() and skipped by JSON.parse
WhiteSpace == {" ", "\n"}

RECURSIVE TrimStart(_)
TrimStart(s) ==
    IF s # <<>> /\ Head(s) \in WhiteSpace THEN TrimStart(Tail(s)) ELSE s

RECURSIVE TrimEnd(_)
TrimEnd(s) ==
    IF s # <<>> /\ s[Len(s)] \in WhiteSpace THEN TrimEnd(SubSeq(s, 1, Len(s) - 1)) ELSE s

Trim(s) == TrimEnd(TrimStart(s))

StartsWith(s, prefix) ==
    Len(s) >= Len(prefix) /\ SubSeq(s, 1, Len(prefix)) = prefix

EndsWith(s, suffix) ==
    Len(s) >= Len(suffix) /\ SubSeq(s, Len(s) - Len(suffix) + 1, Len(s)) = suffix

\* s.slice(n) and s.slice(0, -n)
SliceFrom(s, n) == SubSeq(s, n + 1, Len(s))
SliceOffEnd(s, n) == SubSeq(s, 1, Len(s) - n)

\* The backtick character (U+0060), which a TLA+ string cannot hold
Backtick == "^"
Fence == <<Backtick, Backtick, Backtick>>
FenceJson == Fence \o <<"j", "s", "o", "n">>

\* JSON values: a number, a string, an array of values, or the empty object.
JsonNum(n) == [t |-> "num", n |-> n, items |-> <<>>, chars |-> <<>>]
JsonStr(chars) == [t |-> "str", n |-> 0, items |-> <<>>, chars |-> chars]
JsonArr(items) == [t |-> "arr", n |-> 0, items |-> items, chars |-> <<>>]
JsonObj == [t |-> "obj", n |-> 0, items |-> <<>>, chars |-> <<>>]
NoJson == [t |-> "none", n |-> 0, items |-> <<>>, chars |-> <<>>]

Digits == {"0", "1", "2"}
DigitValue(d) == IF d = "0" THEN 0 ELSE IF d = "1" THEN 1 ELSE 2

\* The characters of the JSON strings of the model; none needs an escape
StrChars == {Backtick, "a"}
Quote == "\""

\* The characters of a JSON string up to its closing quote: [ok, chars, rest]
RECURSIVE ReadString(_)
ReadString(s) ==
    IF s = <<>> THEN [ok |-> FALSE, chars |-> <<>>, rest |-> <<>>]
    ELSE IF Head(s) = Quote THEN [ok |-> TRUE, chars |-> <<>>, rest |-> Tail(s)]
    ELSE IF Head(s) \in StrChars
         THEN LET r == ReadString(Tail(s))
              IN  [ok |-> r.ok, chars |-> <<Head(s)>> \o r.chars, rest |-> r.rest]
    ELSE [ok |-> FALSE, chars |-> <<>>, rest |-> <<>>]

\* JSON.parse on the JSON texts of the model: value, surrounded and
\* separated by white space; anything else is a SyntaxError.
\* ParseValue returns [ok, value, rest] for the value at the head of s.
RECURSIVE ParseValue(_)
ParseValue(s) ==
    LET bad == [ok |-> FALSE, value |-> NoJson, rest |-> <<>>]
    IN  IF s = <<>> THEN bad
        ELSE IF Head(s) \in Digits
             THEN [ok |-> TRUE, value |-> JsonNum(DigitValue(Head(s))), rest |-> Tail(s)]
        ELSE IF Head(s) = Quote
             THEN LET r == ReadString(Tail(s))
                  IN  IF r.ok THEN [ok |-> TRUE, value |-> JsonStr(r.chars), rest |-> r.rest]
                      ELSE bad
        ELSE IF Head(s) = "{"
             THEN LET r == TrimStart(Tail(s))
                  IN  IF r # <<>> /\ Head(r) = "}"
                      THEN [ok |-> TRUE, value |-> JsonObj, rest |-> Tail(r)]
                      ELSE bad
        ELSE IF Head(s) = "["
             THEN LET r == TrimStart(Tail(s))
                  IN  IF r # <<>> /\ Head(r) = "]"
                      THEN [ok |-> TRUE, value |-> JsonArr(<<>>), rest |-> Tail(r)]
                      ELSE LET v == ParseValue(r)
                               q == TrimStart(v.rest)
                           IN  IF v.ok /\ q # <<>> /\ Head(q) = "]"
                               THEN [ok |-> TRUE, value |-> JsonArr(<<v.value>>),
                                     rest |-> Tail(q)]
                               ELSE bad
        ELSE bad

JsonParse(s) ==
    LET v == ParseValue(TrimStart(s))
    IN  IF v.ok /\ TrimStart(v.rest) = <<>>
        THEN [ok |-> TRUE, value |-> v.value]
        ELSE [ok |-> FALSE, value |-> NoJson]

\* The length of the preview in response.substring(0, 200)
PreviewLen == 200

\* A variant that quotes the whole response
SubstringWhole(s, n) == s

\* response.substring(0, n)
Substring(s, n) == SubSeq(s, 1, IF Len(s) < n THEN Len(s) ELSE n)

\* n times the character c
RECURSIVE Repeat(_, _)
Repeat(c, n) == IF n = 0 THEN <<>> ELSE Append(Repeat(c, n - 1), c)

\* A text longer than the preview, and the same text after an opening fence
LongText == Repeat("x", PreviewLen + 1)
FencedLongText == FenceJson \o <<"\n">> \o LongText

\* A variant that leaves a trailing fence in place
parseJsonResponseLeadingOnly(response) ==
    LET trimmed == Trim(response)
        unfenced == IF StartsWith(trimmed, FenceJson) THEN SliceFrom(trimmed, 7)
                    ELSE IF StartsWith(trimmed, Fence) THEN SliceFrom(trimmed, 3)
                    ELSE trimmed
        parsed == JsonParse(Trim(unfenced))
    IN  IF parsed.ok
        THEN [ok |-> TRUE, value |-> parsed.value, preview |-> <<>>]
        ELSE [ok |-> FALSE, value |-> NoJson, preview |-> Substring(response, PreviewLen)]

\* BaseProvider.parseJsonResponse: [ok, value, error]; error is the preview
\* carried by the thrown message.
parseJsonResponse(response) ==
    LET trimmed == Trim(response)
        unfenced == IF StartsWith(trimmed, FenceJson) THEN SliceFrom(trimmed, 7)
                    ELSE IF StartsWith(trimmed, Fence) THEN SliceFrom(trimmed, 3)
                    ELSE trimmed
        untailed == IF EndsWith(unfenced, Fence) THEN SliceOffEnd(unfenced, 3) ELSE unfenced
        cleaned == Trim(untailed)
        parsed == JsonParse(cleaned)
    IN  IF parsed.ok
        THEN [ok |-> TRUE, value |-> parsed.value, preview |-> <<>>]
        ELSE [ok |-> FALSE, value |-> NoJson, preview |-> Substring(response, PreviewLen)]

\* What a backend answers to one request: the call rejects, or a response
\* with a text and, optionally, a usage object.
NoUsage == [undefined |-> TRUE]
Usages == {NoUsage, [input |-> 3, output |-> 2, total |-> 5]}
Responses ==
    { <<>>,
      <<"{", "}">>,
      FenceJson \o <<"\n", "[", "1", "]", "\n">> \o Fence,
      <<"n", "o">>,
      FencedLongText }
NoAnswer == [kind |-> "none", text |-> <<>>, usage |-> NoUsage]
BackendAnswers ==
    {[kind |-> "error", text |-> <<>>, usage |-> NoUsage]}
    \cup [kind : {"ok"}, text : Responses, usage : Usages]

\* extractTokenUsage of each adapter: [ok, tokens]. ClaudeProvider reads
\* response.usage.input_tokens without a guard, a TypeError when usage is absent,
\* and adds input and output itself.
NoTokens == [undefined |-> TRUE]
extractTokenUsage(name, usage) ==
    IF usage = NoUsage
    THEN [ok |-> name # "claude", tokens |-> NoTokens]
    ELSE [ok |-> TRUE,
          tokens |-> [inputTokens |-> usage.input, outputTokens |-> usage.output,
                      totalTokens |-> IF name = "claude" THEN usage.input + usage.output
                                      ELSE usage.total]]

\* The outcome of an adapter method once the backend has answered:
\* [ok, content, data, tokens, stage, error, preview]; error is the fixed part
\* of the thrown message and preview the part of the response quoted after it.
AdapterFailed(stage, msg) ==
    [ok |-> FALSE, content |-> <<>>, data |-> NoJson, tokens |-> NoTokens,
     stage |-> stage, error |-> msg, preview |-> <<>>]

\* extractText of the adapter called `name`
extractText(name, answer) ==
    LET usage == extractTokenUsage(name, answer.usage)
    IN  IF answer.kind = "error" THEN AdapterFailed("adapter", "backend request failed")
        ELSE IF ~usage.ok THEN AdapterFailed("adapter", "TypeError: reading usage")
        ELSE [ok |-> TRUE, content |-> answer.text, data |-> NoJson,
              tokens |-> usage.tokens, stage |-> "none", error |-> NoError,
              preview |-> <<>>]

\* extractJson of the adapter called `name`: gemini parses response.text() as
\* it is, the other four substitute '{}' for an empty or missing text.
extractJson(name, answer) ==
    LET usage == extractTokenUsage(name, answer.usage)
        text == IF name # "gemini" /\ answer.text = <<>> THEN <<"{", "}">> ELSE answer.text
        parsed == parseJsonResponse(text)
    IN  IF answer.kind = "error" THEN AdapterFailed("adapter", "backend request failed")
        ELSE IF ~usage.ok THEN AdapterFailed("adapter", "TypeError: reading usage")
        ELSE IF ~parsed.ok
             THEN [AdapterFailed("recovery", "Failed to parse JSON response")
                      EXCEPT !.preview = parsed.preview]
        ELSE [ok |-> TRUE, content |-> <<>>, data |-> parsed.value,
              tokens |-> usage.tokens, stage |-> "none", error |-> NoError,
              preview |-> <<>>]

\* ModelConfig (types/index.ts:55-80); an optional number is a set with no
\* element or one.
NoModelConfig == [undefined |-> TRUE]
ModelConfigs == {NoModelConfig} \cup [maxTokens : {{}, {0}, {100}}]

\* modelConfig?.maxTokens
MaxTokens(modelConfig) ==
    IF modelConfig = NoModelConfig THEN {} ELSE modelConfig.maxTokens

\* The ceiling the adapters fall back on
DefaultMaxTokens == 16384

\* The token limits of a request, by the name of the parameter that carries it
NoLimits == [max_tokens |-> {}, max_completion_tokens |-> {}, maxOutputTokens |-> {}]

\* The model identifiers used with the adapters, letter by letter
Spelling(model) ==
    CASE model = "gpt-5-mini" -> <<"g", "p", "t", "-", "5", "-", "m", "i", "n", "i">>
      [] model = "o1-mini" -> <<"o", "1", "-", "m", "i", "n", "i">>
      [] model = "o3" -> <<"o", "3">>
      [] model = "gpt-4o" -> <<"g", "p", "t", "-", "4", "o">>
      [] model = "my-o1" -> <<"m", "y", "-", "o", "1">>
      [] model = "grok-2-vision-1212" -> <<"g", "r", "o", "k", "-", "2">>
      [] model = "claude-sonnet-4-20250514" -> <<"c", "l", "a", "u", "d", "e">>
      [] model = "gemini-1.5-flash" -> <<"g", "e", "m", "i", "n", "i", "-", "1">>
      [] model = "gemini-2.0-flash" -> <<"g", "e", "m", "i", "n", "i", "-", "2">>
      [] OTHER -> <<"c", "u", "s", "t", "o", "m">>

\* GeminiProvider / VertexProvider buildGenerationConfig
buildGenerationConfig(modelConfig) ==
    [NoLimits EXCEPT !.maxOutputTokens = MaxTokens(modelConfig)]

\* OpenAIProvider.buildCompletionOptions
buildCompletionOptionsOpenAI(model, modelConfig) ==
    LET useMaxCompletionTokens ==
            \/ StartsWith(Spelling(model), <<"g", "p", "t", "-", "5">>)
            \/ StartsWith(Spelling(model), <<"o", "1">>)
            \/ StartsWith(Spelling(model), <<"o", "3">>)
        limit == IF MaxTokens(modelConfig) = {} THEN {DefaultMaxTokens}
                 ELSE MaxTokens(modelConfig)
    IN  IF useMaxCompletionTokens THEN [NoLimits EXCEPT !.max_completion_tokens = limit]
        ELSE [NoLimits EXCEPT !.max_tokens = limit]

\* GrokProvider.buildCompletionOptions and ClaudeProvider.buildMessageOptions
buildCompletionOptionsGrok(modelConfig) ==
    [NoLimits EXCEPT !.max_tokens = IF MaxTokens(modelConfig) = {} THEN {DefaultMaxTokens}
                                    ELSE MaxTokens(modelConfig)]
buildMessageOptions(modelConfig) ==
    [NoLimits EXCEPT !.max_tokens = IF MaxTokens(modelConfig) = {} THEN {DefaultMaxTokens}
                                    ELSE MaxTokens(modelConfig)]

\* The token limits of the request that extractText or extractJson of the
\* adapter `p` sends for a call with this modelConfig
RequestLimits(p, modelConfig) ==
    CASE p.name \in {"gemini", "vertex"} -> buildGenerationConfig(modelConfig)
      [] p.name = "openai" -> buildCompletionOptionsOpenAI(p.model, modelConfig)
      [] p.name = "grok" -> buildCompletionOptionsGrok(modelConfig)
      [] p.name = "claude" -> buildMessageOptions(modelConfig)

-----------------------------------------------------------------------------
(* The orchestrator: src/src/ocr.ts *)

\* ExtractionOptions (types/index.ts:86-117); the whole argument may be left out.
NoOptions == [undefined |-> TRUE]
Formats == {Undefined, "text", "json"}
Schemas == {Undefined, "{total: number}"}
OutputPaths == {Undefined, "out/result"}
Options == {NoOptions} \cup [format : Formats, schema : Schemas, outputPath : OutputPaths]

\* options?.format, options?.schema, options?.outputPath
OptFormat(options) == IF options = NoOptions THEN Undefined ELSE options.format
OptSchema(options) == IF options = NoOptions THEN Undefined ELSE options.schema
OptOutputPath(options) == IF options = NoOptions THEN Undefined ELSE options.outputPath

Sources == [scheme : Schemes, base : Bases, ext : Exts]
NoSource == [undefined |-> TRUE]
NoResult == [undefined |-> TRUE]

\* A call slot. pc is the position of the call: "idle" (not issued), "loading"
\* (awaiting loadFile / loadFileFromUrl), "extracting" (awaiting the adapter),
\* "saving" (awaiting saveToFile), "done" (the returned promise has settled).
\* The fields from issuedOn on record what happened, for the properties:
\* the adapter active when the call was issued, the adapter whose
\* supportsFileType was asked, the adapter whose extraction method was invoked,
\* the invocations, what the adapter returned, what was handed to saveToFile,
\* the stage that failed, whether setProvider replaced the adapter while
\* the call was in flight, what the backend answered, and the part of the
\* response that the message of a JSON recovery error quotes, and how
\* saveToFile ended ("none", "written", "failed").
IdleCall ==
    [pc |-> "idle", api |-> "none", source |-> NoSource, options |-> NoOptions,
     startTime |-> 0, file |-> NoFile, method |-> "none",
     settled |-> "pending", result |-> NoResult, built |-> NoResult,
     issuedOn |-> NoProvider, checkedOn |-> NoProvider, servedBy |-> NoProvider,
     textCalls |-> 0, jsonCalls |-> 0, backendCalls |-> 0,
     produced |-> NoResult, saves |-> <<>>, failedAt |-> "none", swapped |-> FALSE,
     answer |-> NoAnswer, preview |-> <<>>, saved |-> "none"]

\* A variant that derives the code from the message
createErrorResultByMessage(message) ==
    [success |-> FALSE, error |-> message,
     code |-> IF message = "Unsupported file type" THEN "UNSUPPORTED_FILE_TYPE"
              ELSE "EXTRACTION_ERROR"]

\* OcrAI.createErrorResult (ocr.ts:200-207)
createErrorResult(message) ==
    [success |-> FALSE, error |-> message, code |-> "EXTRACTION_ERROR"]

\* A variant in which saveToFile is awaited after the try block
TryBlockOfSaveOutside(stage) ==
    CASE stage = "load" -> "extract"
      [] stage \in {"adapter", "recovery"} -> "processExtraction"
      [] OTHER -> "none"

\* The try block an exception of a stage is raised in: loading is awaited
\* inside extract's try (ocr.ts:73-80); the adapter call, JSON recovery and
\* saveToFile are awaited inside processExtraction's try (ocr.ts:138-194); the
\* supportsFileType check (ocr.ts:130) is outside processExtraction's try, and
\* extract returns processExtraction's promise without awaiting it, so its
\* rejection passes extract's catch.
TryBlockOf(stage) ==
    CASE stage = "load" -> "extract"
      [] stage \in {"adapter", "recovery", "persistence"} -> "processExtraction"
      [] OTHER -> "none"

\* A variant whose error result keeps what the adapter had returned
RaiseKeepingContent(c, stage, message) ==
    [c EXCEPT !.pc = "done", !.settled = "resolved", !.failedAt = stage,
              !.result = [success |-> FALSE, error |-> message,
                          code |-> "EXTRACTION_ERROR", partial |-> c.built],
              !.built = NoResult]

\* A call in which `stage` raised `message`
Raise(c, stage, message) ==
    IF TryBlockOf(stage) # "none"
    THEN [c EXCEPT !.pc = "done", !.settled = "resolved", !.failedAt = stage,
                   !.result = createErrorResult(message), !.built = NoResult]
    ELSE [c EXCEPT !.pc = "done", !.settled = "rejected", !.failedAt = stage,
                   !.built = NoResult]

\* A call that returns `result`
Return(c, result) ==
    [c EXCEPT !.pc = "done", !.settled = "resolved", !.result = result,
              !.built = NoResult]

\* A variant that invokes the extraction method on the adapter the call was
\* issued on, after asking the category of the adapter active now
DispatchOnIssuer(c, p) ==
    LET format == OrElse(OptFormat(c.options), "text")
        checked == [c EXCEPT !.checkedOn = p]
    IN  IF ~supportsFileType(p.name, c.file.type)
        THEN Return([checked EXCEPT !.failedAt = "supports"],
                    [success |-> FALSE, error |-> "Provider does not support file type",
                     code |-> "UNSUPPORTED_FILE_TYPE"])
        ELSE IF format = "json"
        THEN IF Falsy(OptSchema(c.options))
             THEN Return([checked EXCEPT !.failedAt = "schema"],
                         [success |-> FALSE, error |-> "Schema is required for JSON extraction",
                          code |-> "MISSING_SCHEMA"])
             ELSE [checked EXCEPT !.pc = "extracting", !.method = "extractJson",
                                  !.servedBy = c.issuedOn, !.jsonCalls = @ + 1,
                                  !.backendCalls = @ + 1]
        ELSE [checked EXCEPT !.pc = "extracting", !.method = "extractText",
                             !.servedBy = c.issuedOn, !.textCalls = @ + 1,
                             !.backendCalls = @ + 1]

\* A variant that asks for the schema only after the adapter has answered
DispatchSchemaUnchecked(c, p) ==
    LET format == OrElse(OptFormat(c.options), "text")
        checked == [c EXCEPT !.checkedOn = p]
    IN  IF ~supportsFileType(p.name, c.file.type)
        THEN Return([checked EXCEPT !.failedAt = "supports"],
                    [success |-> FALSE, error |-> "Provider does not support file type",
                     code |-> "UNSUPPORTED_FILE_TYPE"])
        ELSE IF format = "json"
        THEN [checked EXCEPT !.pc = "extracting", !.method = "extractJson",
                             !.servedBy = p, !.jsonCalls = @ + 1,
                             !.backendCalls = @ + 1]
        ELSE [checked EXCEPT !.pc = "extracting", !.method = "extractText",
                             !.servedBy = p, !.textCalls = @ + 1,
                             !.backendCalls = @ + 1]

\* processExtraction from its start to its first await (ocr.ts:127-148, 170),
\* run with `p` the value of this.provider at that moment.
Dispatch(c, p) ==
    LET format == OrElse(OptFormat(c.options), "text")
        checked == [c EXCEPT !.checkedOn = p]
    IN  IF ~supportsFileType(p.name, c.file.type)
        THEN Return([checked EXCEPT !.failedAt = "supports"],
                    [success |-> FALSE, error |-> "Provider does not support file type",
                     code |-> "UNSUPPORTED_FILE_TYPE"])
        ELSE IF format = "json"
        THEN IF Falsy(OptSchema(c.options))
             THEN Return([checked EXCEPT !.failedAt = "schema"],
                         [success |-> FALSE, error |-> "Schema is required for JSON extraction",
                          code |-> "MISSING_SCHEMA"])
             ELSE [checked EXCEPT !.pc = "extracting", !.method = "extractJson",
                                  !.servedBy = p, !.jsonCalls = @ + 1,
                                  !.backendCalls = @ + 1]
        ELSE [checked EXCEPT !.pc = "extracting", !.method = "extractText",
                             !.servedBy = p, !.textCalls = @ + 1,
                             !.backendCalls = @ + 1]

\* A variant that looks at the format and the schema before anything else
AfterLoadSchemaFirst(c, loaded, p) ==
    IF OrElse(OptFormat(c.options), "text") = "json" /\ Falsy(OptSchema(c.options))
    THEN Return([c EXCEPT !.failedAt = "schema"],
                [success |-> FALSE, error |-> "Schema is required for JSON extraction",
                 code |-> "MISSING_SCHEMA"])
    ELSE IF loaded.ok THEN Dispatch([c EXCEPT !.file = loaded.file], p)
    ELSE Raise(c, "load", loaded.error)

\* The call once the loader has answered (ocr.ts:74-80, 93-98, 111-116)
AfterLoad(c, loaded, p) ==
    IF loaded.ok THEN Dispatch([c EXCEPT !.file = loaded.file], p)
    ELSE Raise(c, "load", loaded.error)

\* JSON.stringify(value, null, 2)
RECURSIVE JsonStringify(_, _)
JsonStringify(v, indent) ==
    IF v.t = "num" THEN <<CHOOSE d \in Digits : DigitValue(d) = v.n>>
    ELSE IF v.t = "str" THEN <<Quote>> \o v.chars \o <<Quote>>
    ELSE IF v.t = "obj" THEN <<"{", "}">>
    ELSE IF v.items = <<>> THEN <<"[", "]">>
    ELSE <<"[", "\n">> \o indent \o <<" ", " ">>
         \o JsonStringify(v.items[1], indent \o <<" ", " ">>)
         \o <<"\n">> \o indent \o <<"]">>

\* JSON.stringify(value)
RECURSIVE JsonStringifyCompact(_)
JsonStringifyCompact(v) ==
    IF v.t = "arr" /\ v.items # <<>>
    THEN <<"[">> \o JsonStringifyCompact(v.items[1]) \o <<"]">>
    ELSE JsonStringify(v, <<>>)

\* A variant that names the adapter active now and the model of the adapter
\* that served the call
BuildResultModelOfServer(c, r, p, time) ==
    LET metadata == [provider |-> p.name, model |-> c.servedBy.model,
                     fileType |-> c.file.type, fileName |-> c.file.name,
                     processingTimeMs |-> time - c.startTime, tokens |-> r.tokens]
    IN  IF c.method = "extractJson"
        THEN [success |-> TRUE, format |-> "json", data |-> r.data, metadata |-> metadata]
        ELSE [success |-> TRUE, format |-> "text", content |-> r.content,
              metadata |-> metadata]

\* A variant that builds a text result whatever the format
BuildResultAlwaysText(c, r, p, time) ==
    [success |-> TRUE, format |-> "text", content |-> r.content,
     metadata |-> [provider |-> p.name, model |-> p.model,
                   fileType |-> c.file.type, fileName |-> c.file.name,
                   processingTimeMs |-> time - c.startTime, tokens |-> r.tokens]]

\* The result record processExtraction builds after the adapter has returned
\* (ocr.ts:149-161, 171-183): this.provider is read again here, as `p`.
BuildResult(c, r, p, time) ==
    LET metadata == [provider |-> p.name, model |-> p.model,
                     fileType |-> c.file.type, fileName |-> c.file.name,
                     processingTimeMs |-> time - c.startTime, tokens |-> r.tokens]
    IN  IF c.method = "extractJson"
        THEN [success |-> TRUE, format |-> "json", data |-> r.data, metadata |-> metadata]
        ELSE [success |-> TRUE, format |-> "text", content |-> r.content,
              metadata |-> metadata]

\* A variant that saves structured results only
AfterAdapterSavesJsonOnly(c, answer, p, time) ==
    LET r == IF c.method = "extractJson" THEN extractJson(c.servedBy.name, answer)
             ELSE extractText(c.servedBy.name, answer)
        result == BuildResult(c, r, p, time)
        path == OptOutputPath(c.options)
        heard == [c EXCEPT !.answer = answer]
        got == [heard EXCEPT !.produced = [content |-> r.content, data |-> r.data,
                                           tokens |-> r.tokens]]
    IN  IF ~r.ok THEN Raise([heard EXCEPT !.preview = r.preview], r.stage, r.error)
        ELSE IF ~Falsy(path) /\ c.method = "extractJson"
             THEN [got EXCEPT !.pc = "saving", !.built = result,
                              !.saves = Append(@, [path |-> path,
                                                   content |-> JsonStringify(r.data, <<>>)])]
        ELSE Return(got, result)

\* The call once the adapter's backend request has been answered
\* (ocr.ts:148-168, 170-190)
AfterAdapter(c, answer, p, time) ==
    LET r == IF c.method = "extractJson" THEN extractJson(c.servedBy.name, answer)
             ELSE extractText(c.servedBy.name, answer)
        result == BuildResult(c, r, p, time)
        path == OptOutputPath(c.options)
        text == IF c.method = "extractJson" THEN JsonStringify(r.data, <<>>) ELSE r.content
        heard == [c EXCEPT !.answer = answer]
        got == [heard EXCEPT !.produced = [content |-> r.content, data |-> r.data,
                                           tokens |-> r.tokens]]
    IN  IF ~r.ok THEN Raise([heard EXCEPT !.preview = r.preview], r.stage, r.error)
        ELSE IF ~Falsy(path)
             THEN [got EXCEPT !.pc = "saving", !.built = result,
                              !.saves = Append(@, [path |-> path, content |-> text])]
        ELSE Return(got, result)

\* A variant that returns the result whether or not the file was written
AfterSaveIgnoringFailure(c, written) ==
    Return([c EXCEPT !.saved = IF written THEN "written" ELSE "failed"], c.built)

\* The call once saveToFile has settled (ocr.ts:165-168, 187-190)
AfterSave(c, written) ==
    IF written THEN Return([c EXCEPT !.saved = "written"], c.built)
    ELSE Raise([c EXCEPT !.saved = "failed"], "persistence", "EACCES: write failed")

-----------------------------------------------------------------------------
(* State and actions *)

NoConfig == [undefined |-> TRUE]

NoParse == [ok |-> FALSE, value |-> NoJson, preview |-> <<>>]
IdleParse ==
    [pc |-> "idle", value |-> NoJson, wrap |-> "none", text |-> <<>>, out |-> NoParse]
IdleAdapter ==
    [pc |-> "idle", method |-> "none", modelConfig |-> NoModelConfig,
     limits |-> NoLimits, answer |-> NoAnswer,
     outcome |-> AdapterFailed("none", NoError)]
IdleRetry ==
    [pc |-> "idle", source |-> NoSource, options |-> NoOptions, retries |-> 0,
     delayMs |-> 0, attempt |-> 0, call |-> IdleCall, results |-> <<>>,
     waits |-> <<>>, lastResult |-> NoResult, returned |-> NoResult]
IdleBatch ==
    [pc |-> "idle", api |-> "none", items |-> <<>>, calls |-> <<>>, pending |-> {},
     log |-> <<>>, returned |-> <<>>]

\* A call of one of the three callback-capable methods of OcrAIPromise.  pc is
\* "idle", "running" (the underlying call is in flight), "settled" (its promise
\* has settled and the reaction of .then is queued), "catching" (the promise
\* of .then has rejected and the reaction of .catch is queued) or "done".
\* gave is what the method returned, invocations the arguments of each
\* invocation of the callback, unhandled whether a rejection was left unhandled.
IdleCallback ==
    [pc |-> "idle", api |-> "none", withCallback |-> FALSE, gave |-> "none",
     call |-> IdleCall, invocations |-> <<>>, thrown |-> NoError,
     unhandled |-> FALSE]

Init ==
    /\ ctor = "unbuilt"
    /\ config = NoConfig
    /\ provider = NoProvider
    /\ created = 0
    /\ switches = 0
    /\ setResult = "none"
    /\ now = 0
    /\ calls = [i \in CallIds |-> IdleCall]
    /\ parse = IdleParse
    /\ adapter = IdleAdapter
    /\ retry = IdleRetry
    /\ batch = IdleBatch
    /\ callback = IdleCallback

\* new OcrAI(cfg) (ocr.ts:34-37)
Construct(cfg) ==
    /\ ctor = "unbuilt"
    /\ config' = cfg
    /\ \E o \in CreateProvider(cfg) :
          IF o.threw
          THEN /\ ctor' = "threw"
               /\ UNCHANGED <<provider, created>>
          ELSE /\ ctor' = "ok"
               /\ provider' = [id |-> created + 1, name |-> o.name, model |-> o.model]
               /\ created' = created + 1
    /\ UNCHANGED <<switches, setResult, now, calls>>
    /\ UNCHANGED partVars

\* A variant that stores the configuration and leaves the adapter in place
SetProviderKeepsAdapter(p, apiKey, model) ==
    /\ ctor = "ok"
    /\ switches < MaxSwitches
    /\ switches' = switches + 1
    /\ config' = [provider |-> p, apiKey |-> apiKey, model |-> model,
                  vertexConfig |-> NoVertexConfig]
    /\ \E o \in CreateProvider(config') :
          setResult' = IF o.threw THEN "threw" ELSE "returned"
    /\ UNCHANGED <<ctor, provider, created, calls, now>>
    /\ UNCHANGED partVars

\* setProvider(p, apiKey, model) (ocr.ts:226-229)
SetProvider(p, apiKey, model) ==
    /\ ctor = "ok"
    /\ switches < MaxSwitches
    /\ switches' = switches + 1
    /\ config' = [provider |-> p, apiKey |-> apiKey, model |-> model,
                  vertexConfig |-> NoVertexConfig]
    /\ \E o \in CreateProvider(config') :
          IF o.threw
          THEN /\ setResult' = "threw"
               /\ UNCHANGED <<provider, created, calls>>
          ELSE /\ setResult' = "returned"
               /\ provider' = [id |-> created + 1, name |-> o.name, model |-> o.model]
               /\ created' = created + 1
               /\ calls' = [i \in CallIds |->
                              IF calls[i].pc \in {"loading", "extracting", "saving"}
                              THEN [calls[i] EXCEPT !.swapped = TRUE]
                              ELSE calls[i]]
    /\ UNCHANGED <<ctor, now>>
    /\ UNCHANGED partVars

\* The call record of a call just issued
Issued(api, source, options) ==
    [IdleCall EXCEPT !.api = api, !.source = source, !.options = options,
                     !.startTime = now, !.issuedOn = provider]

\* extract(source, options) up to its first await (ocr.ts:67-76)
Extract(i, source, options) ==
    /\ ctor = "ok"
    /\ calls[i].pc = "idle"
    /\ calls' = [calls EXCEPT ![i] =
                    [Issued("extract", source, options) EXCEPT !.pc = "loading"]]
    /\ UNCHANGED <<ctor, config, provider, created, switches, setResult, now>>
    /\ UNCHANGED partVars

\* loadFile or loadFileFromUrl settles and extract runs on to its next await
\* or to its end (ocr.ts:74-80 and processExtraction)
LoadDone(i, fsOutcome, answer) ==
    /\ calls[i].pc = "loading"
    /\ LET c == calls[i]
           loaded == IF isUrl(c.source) THEN loadFileFromUrl(c.source, answer)
                     ELSE loadFile([base |-> c.source.base, ext |-> c.source.ext], fsOutcome)
       IN  calls' = [calls EXCEPT ![i] = AfterLoad(c, loaded, provider)]
    /\ UNCHANGED <<ctor, config, provider, created, switches, setResult, now>>
    /\ UNCHANGED partVars

\* extractFromBuffer(buffer, fileName, options) up to its first await or its
\* end (ocr.ts:86-99)
ExtractFromBuffer(i, fileName, options) ==
    /\ ctor = "ok"
    /\ calls[i].pc = "idle"
    /\ calls' = [calls EXCEPT ![i] =
                    AfterLoad(Issued("extractFromBuffer",
                                     [scheme |-> "", base |-> fileName.base,
                                      ext |-> fileName.ext], options),
                              loadFileFromBuffer(fileName), provider)]
    /\ UNCHANGED <<ctor, config, provider, created, switches, setResult, now>>
    /\ UNCHANGED partVars

\* extractFromBase64(base64, fileName, options) up to its first await or its
\* end (ocr.ts:104-117)
ExtractFromBase64(i, fileName, options) ==
    /\ ctor = "ok"
    /\ calls[i].pc = "idle"
    /\ calls' = [calls EXCEPT ![i] =
                    AfterLoad(Issued("extractFromBase64",
                                     [scheme |-> "", base |-> fileName.base,
                                      ext |-> fileName.ext], options),
                              loadFileFromBase64(fileName), provider)]
    /\ UNCHANGED <<ctor, config, provider, created, switches, setResult, now>>
    /\ UNCHANGED partVars

\* The backend answers the adapter's request; the adapter method returns or
\* throws and processExtraction runs on to saveToFile or to its end
BackendDone(i, answer) ==
    /\ calls[i].pc = "extracting"
    /\ calls' = [calls EXCEPT ![i] = AfterAdapter(calls[i], answer, provider, now)]
    /\ UNCHANGED <<ctor, config, provider, created, switches, setResult, now>>
    /\ UNCHANGED partVars

\* saveToFile settles (file.loader.ts:190-199) and processExtraction ends
SaveDone(i, written) ==
    /\ calls[i].pc = "saving"
    /\ calls' = [calls EXCEPT ![i] = AfterSave(calls[i], written)]
    /\ UNCHANGED <<ctor, config, provider, created, switches, setResult, now>>
    /\ UNCHANGED partVars

\* Time passes
Tick ==
    /\ now < MaxClock
    /\ now' = now + 1
    /\ UNCHANGED <<ctor, config, provider, created, switches, setResult, calls>>
    /\ UNCHANGED partVars

-----------------------------------------------------------------------------
(* JSON recovery on its own: BaseProvider.parseJsonResponse applied to one
   backend text (gemini.provider.ts:208-229) *)

\* All sequences over S of length at most n
RECURSIVE SeqsUpTo(_, _)
SeqsUpTo(S, n) ==
    IF n = 0 THEN {<<>>}
    ELSE LET shorter == SeqsUpTo(S, n - 1)
         IN  shorter \cup {Append(q, c) : q \in shorter, c \in S}

\* The structured values a backend is asked for: scalars, and arrays of them
JsonScalars ==
    {JsonNum(n) : n \in 0..2} \cup {JsonObj}
    \cup {JsonStr(q) : q \in SeqsUpTo(StrChars, MaxStrLen)}
JsonValues ==
    JsonScalars \cup {JsonArr(<<>>)}
    \cup {JsonArr(<<v>>) : v \in JsonScalars \cup {JsonArr(<<>>)}}

\* The ways a backend wraps its JSON text: as it is, in a fence tagged json,
\* in an untagged fence, in a fence with white space around it, with a leading
\* fence only, and in two fences
Wrappings == {"bare", "json-fence", "fence", "padded", "open", "double"}
Wrap(kind, text) ==
    LET fenced == FenceJson \o <<"\n">> \o text \o <<"\n">> \o Fence
    IN  CASE kind = "bare" -> text
          [] kind = "json-fence" -> fenced
          [] kind = "fence" -> Fence \o <<"\n">> \o text \o <<"\n">> \o Fence
          [] kind = "padded" -> <<" ", "\n">> \o fenced \o <<"\n", " ">>
          [] kind = "open" -> FenceJson \o <<"\n">> \o text
          [] kind = "double" -> FenceJson \o <<"\n">> \o fenced \o <<"\n">> \o Fence

\* Backend texts that are not JSON: nothing, a word, a fence with nothing in
\* it, a truncated array, and texts longer than the preview
RawTexts ==
    {<<>>, <<"n", "o">>, Fence, <<"[", "1">>, FencedLongText, LongText}

\* The backend answers with a serialization of v
GiveSerialized(v, kind, compact) ==
    /\ parse.pc = "idle"
    /\ parse' = [parse EXCEPT !.pc = "given", !.value = v, !.wrap = kind,
                              !.text = Wrap(kind, IF compact THEN JsonStringifyCompact(v)
                                                  ELSE JsonStringify(v, <<>>))]
    /\ UNCHANGED <<ocrVars, adapter, retry, batch, callback>>

\* The backend answers with a text that is not JSON
GiveRaw(text) ==
    /\ parse.pc = "idle"
    /\ parse' = [parse EXCEPT !.pc = "given", !.wrap = "raw", !.text = text]
    /\ UNCHANGED <<ocrVars, adapter, retry, batch, callback>>

\* parseJsonResponse(text) returns or throws
Recover ==
    /\ parse.pc = "given"
    /\ parse' = [parse EXCEPT !.pc = "parsed", !.out = parseJsonResponse(parse.text)]
    /\ UNCHANGED <<ocrVars, adapter, retry, batch, callback>>

-----------------------------------------------------------------------------
(* An adapter on its own: one call of extractText or extractJson on the
   adapter the object was built with *)

\* extractText / extractJson up to the await of the backend request
AdapterInvoke(method, modelConfig) ==
    /\ ctor = "ok"
    /\ adapter.pc = "idle"
    /\ adapter' = [adapter EXCEPT !.pc = "awaiting", !.method = method,
                                  !.modelConfig = modelConfig,
                                  !.limits = RequestLimits(provider, modelConfig)]
    /\ UNCHANGED <<ocrVars, parse, retry, batch, callback>>

\* The backend answers and the adapter method returns or throws
AdapterSettle(answer) ==
    /\ adapter.pc = "awaiting"
    /\ LET r == IF adapter.method = "extractJson" THEN extractJson(provider.name, answer)
                ELSE extractText(provider.name, answer)
       IN  adapter' = [adapter EXCEPT !.pc = IF r.ok THEN "returned" ELSE "threw",
                                      !.answer = answer, !.outcome = r]
    /\ UNCHANGED <<ocrVars, parse, retry, batch, callback>>

-----------------------------------------------------------------------------
(* OcrAIPromise (ocr.ts:247-425): extractWithRetry, extractMany and
   extractBatch, each built on OcrAI.extract *)

\* What the world answers to the awaits of an extract call: the file system
\* or the server to the loader, the backend to the adapter, the file system
\* to saveToFile
NoWorld ==
    [fs |-> "ok", http |-> CHOOSE a \in HttpAnswers : TRUE, answer |-> NoAnswer,
     written |-> TRUE]

\* this.ocr.extract(source, options) up to its first await (ocr.ts:67-76), on
\* the adapter p at time `time`
IssueExtract(source, options, p, time) ==
    [IdleCall EXCEPT !.api = "extract", !.source = source, !.options = options,
                     !.startTime = time, !.issuedOn = p, !.pc = "loading"]

\* The await a call is suspended on settles, and the call runs on to its next
\* await or to its end (ocr.ts:74-80 and processExtraction)
Advance(c, world, p, time) ==
    CASE c.pc = "loading" ->
            AfterLoad(c, IF isUrl(c.source) THEN loadFileFromUrl(c.source, world.http)
                         ELSE loadFile([base |-> c.source.base, ext |-> c.source.ext],
                                       world.fs), p)
      [] c.pc = "extracting" -> AfterAdapter(c, world.answer, p, time)
      [] c.pc = "saving" -> AfterSave(c, world.written)

\* A variant whose wait doubles after every failed attempt
AfterAttemptBackingOff(r, c) ==
    LET seen == [r EXCEPT !.results = Append(@, c.result)]
    IN  IF c.settled # "resolved" THEN [seen EXCEPT !.pc = "rejected"]
        ELSE IF c.result.success
             THEN [seen EXCEPT !.pc = "returned", !.returned = c.result]
        ELSE IF r.attempt < r.retries
             THEN [seen EXCEPT !.pc = "delaying", !.lastResult = c.result,
                               !.waits = Append(@, r.delayMs * (2 ^ r.attempt))]
        ELSE [seen EXCEPT !.pc = "returned", !.lastResult = c.result,
                          !.returned = c.result, !.attempt = @ + 1]

\* A variant that keeps the failure of the first attempt
AfterAttemptKeepsFirst(r, c) ==
    LET seen == [r EXCEPT !.results = Append(@, c.result)]
        kept == IF r.lastResult = NoResult THEN c.result ELSE r.lastResult
    IN  IF c.settled # "resolved" THEN [seen EXCEPT !.pc = "rejected"]
        ELSE IF c.result.success
             THEN [seen EXCEPT !.pc = "returned", !.returned = c.result]
        ELSE IF r.attempt < r.retries
             THEN [seen EXCEPT !.pc = "delaying", !.lastResult = kept,
                               !.waits = Append(@, r.delayMs)]
        ELSE [seen EXCEPT !.pc = "returned", !.lastResult = kept,
                          !.returned = kept, !.attempt = @ + 1]

\* The body of the loop of extractWithRetry once `await this.ocr.extract` has
\* settled with the call record c (ocr.ts:380-391), up to the await of the
\* delay, whose timer is set for delayMs and recorded in waits, or to the
\* return (ocr.ts:394)
AfterAttempt(r, c) ==
    LET seen == [r EXCEPT !.results = Append(@, c.result)]
    IN  IF c.settled # "resolved" THEN [seen EXCEPT !.pc = "rejected"]
        ELSE IF c.result.success
             THEN [seen EXCEPT !.pc = "returned", !.returned = c.result]
        ELSE IF r.attempt < r.retries
             THEN [seen EXCEPT !.pc = "delaying", !.lastResult = c.result,
                               !.waits = Append(@, r.delayMs)]
        ELSE [seen EXCEPT !.pc = "returned", !.lastResult = c.result,
                          !.returned = c.result, !.attempt = @ + 1]

\* extractWithRetry(source, options, retries, delayMs) up to its first await
\* (ocr.ts:371-380); with retries < 0 the loop body never runs and
\* `lastResult!`, still undefined, is returned
ExtractWithRetry(source, options, retries, delayMs) ==
    /\ ctor = "ok"
    /\ retry.pc = "idle"
    /\ retry' = [retry EXCEPT !.source = source, !.options = options,
                              !.retries = retries, !.delayMs = delayMs,
                              !.call = IF 0 <= retries
                                       THEN IssueExtract(source, options, provider, now)
                                       ELSE IdleCall,
                              !.pc = IF 0 <= retries THEN "attempting" ELSE "returned"]
    /\ UNCHANGED <<ocrVars, parse, adapter, batch, callback>>

\* The extract call of the current attempt moves on by one await; when it
\* settles, extractWithRetry resumes
AttemptStep(world) ==
    /\ retry.pc = "attempting"
    /\ \E c \in {Advance(retry.call, world, provider, now)} :
          retry' = IF c.pc = "done" THEN AfterAttempt([retry EXCEPT !.call = c], c)
                   ELSE [retry EXCEPT !.call = c]
    /\ UNCHANGED <<ocrVars, parse, adapter, batch, callback>>

\* The delay between two attempts ends (ocr.ts:389-391) and the next attempt
\* issues its extract call
DelayDone ==
    /\ retry.pc = "delaying"
    /\ retry' = [retry EXCEPT !.attempt = @ + 1, !.pc = "attempting",
                              !.call = IssueExtract(retry.source, retry.options,
                                                    provider, now)]
    /\ UNCHANGED <<ocrVars, parse, adapter, batch, callback>>

\* A variant that hands the results back in the order of completion
GatherInCompletionOrder(items, log) ==
    [k \in 1..Len(items) |-> log[k].result]

\* Promise.all over the promises of the elements, all resolved: the results
\* in the order of the inputs (ocr.ts:349, 360)
Gather(items, log) ==
    [i \in 1..Len(items) |->
        log[CHOOSE k \in 1..Len(log) : log[k].index = i].result]

\* A variant in which every element call works on the last item, as if the
\* calls shared one request
StartedOnSharedItem(api, items, p, time) ==
    [IdleBatch EXCEPT !.api = api, !.items = items,
                      !.calls = [i \in 1..Len(items) |->
                                    IssueExtract(items[Len(items)].source,
                                                 items[Len(items)].options, p, time)],
                      !.pending = 1..Len(items),
                      !.pc = IF items = <<>> THEN "resolved" ELSE "gathering"]

\* items.map(...) has issued one extract call per element, on the adapter p
\* at time `time`; Promise.all of no promise resolves at once
Started(api, items, p, time) ==
    [IdleBatch EXCEPT !.api = api, !.items = items,
                      !.calls = [i \in 1..Len(items) |->
                                    IssueExtract(items[i].source, items[i].options,
                                                 p, time)],
                      !.pending = 1..Len(items),
                      !.pc = IF items = <<>> THEN "resolved" ELSE "gathering"]

\* extractMany(sources, options) (ocr.ts:345-350)
ExtractMany(sources, options) ==
    /\ ctor = "ok"
    /\ batch.pc = "idle"
    /\ batch' = Started("extractMany",
                        [i \in 1..Len(sources) |->
                            [source |-> sources[i], options |-> options]],
                        provider, now)
    /\ UNCHANGED <<ocrVars, parse, adapter, retry, callback>>

\* extractBatch(items) (ocr.ts:357-361)
ExtractBatch(items) ==
    /\ ctor = "ok"
    /\ batch.pc = "idle"
    /\ batch' = Started("extractBatch", items, provider, now)
    /\ UNCHANGED <<ocrVars, parse, adapter, retry, callback>>

\* The extract call of element i moves on by one await; when it settles,
\* Promise.all rejects if it is a rejection and resolves if it is the last
\* resolution
ElementStep(i, world) ==
    /\ batch.pc = "gathering"
    /\ i \in batch.pending
    /\ \E c \in {Advance(batch.calls[i], world, provider, now)} :
       LET log == Append(batch.log, [index |-> i, settled |-> c.settled,
                                     result |-> c.result])
           left == batch.pending \ {i}
       IN  batch' = IF c.pc # "done" THEN [batch EXCEPT !.calls[i] = c]
                    ELSE [batch EXCEPT
                            !.calls[i] = c,
                            !.log = log,
                            !.pending = left,
                            !.pc = IF c.settled # "resolved" THEN "rejected"
                                   ELSE IF left = {} THEN "resolved" ELSE "gathering",
                            !.returned = IF c.settled = "resolved" /\ left = {}
                                         THEN Gather(batch.items, log) ELSE <<>>]
    /\ UNCHANGED <<ocrVars, parse, adapter, retry, callback>>

\* The method has the promise of the underlying call in hand (ocr.ts:267, 294,
\* 321): with a callback it registers .then(...).catch(...) and returns
\* undefined, without one it returns the promise (ocr.ts:269-282)
Registered(api, c, withCallback) ==
    [IdleCallback EXCEPT !.api = api, !.withCallback = withCallback, !.call = c,
                         !.gave = IF withCallback THEN "undefined" ELSE "promise",
                         !.pc = IF c.pc # "done" THEN "running"
                                ELSE IF withCallback THEN "settled" ELSE "done"]

\* OcrAIPromise.extract(source, options, callback) (ocr.ts:262-283)
PromiseExtract(source, options, withCallback) ==
    /\ ctor = "ok"
    /\ callback.pc = "idle"
    /\ callback' = Registered("extract", IssueExtract(source, options, provider, now),
                              withCallback)
    /\ UNCHANGED <<ocrVars, parse, adapter, retry, batch>>

\* OcrAIPromise.extractFromBuffer(buffer, fileName, options, callback)
\* (ocr.ts:288-310)
PromiseExtractFromBuffer(fileName, options, withCallback) ==
    /\ ctor = "ok"
    /\ callback.pc = "idle"
    /\ \E c \in {Issued("extractFromBuffer",
                        [scheme |-> "", base |-> fileName.base, ext |-> fileName.ext],
                        options)} :
          callback' = Registered("extractFromBuffer",
                                 AfterLoad(c, loadFileFromBuffer(fileName), provider),
                                 withCallback)
    /\ UNCHANGED <<ocrVars, parse, adapter, retry, batch>>

\* OcrAIPromise.extractFromBase64(base64, fileName, options, callback)
\* (ocr.ts:315-337)
PromiseExtractFromBase64(fileName, options, withCallback) ==
    /\ ctor = "ok"
    /\ callback.pc = "idle"
    /\ \E c \in {Issued("extractFromBase64",
                        [scheme |-> "", base |-> fileName.base, ext |-> fileName.ext],
                        options)} :
          callback' = Registered("extractFromBase64",
                                 AfterLoad(c, loadFileFromBase64(fileName), provider),
                                 withCallback)
    /\ UNCHANGED <<ocrVars, parse, adapter, retry, batch>>

\* The underlying call moves on by one await; when it settles, the reaction
\* of .then is queued if there is a callback
UnderlyingStep(world) ==
    /\ callback.pc = "running"
    /\ \E c \in {Advance(callback.call, world, provider, now)} :
          callback' = [callback EXCEPT
                          !.call = c,
                          !.pc = IF c.pc # "done" THEN "running"
                                 ELSE IF callback.withCallback THEN "settled"
                                 ELSE "done"]
    /\ UNCHANGED <<ocrVars, parse, adapter, retry, batch>>

\* The arguments the reaction of .then passes to the callback
\* (ocr.ts:272-276)
ThenArguments(result) ==
    [error |-> IF result.success THEN "null" ELSE result.error, result |-> result]

\* The reaction of .then runs (ocr.ts:271-277): it invokes the callback, which
\* returns or throws; what it throws rejects the promise .catch is chained
\* on.  A rejection of the underlying promise passes .then by.
ThenReaction(throws) ==
    /\ callback.pc = "settled"
    /\ callback' =
          IF callback.call.settled # "resolved"
          THEN [callback EXCEPT !.pc = "catching", !.thrown = "rejection"]
          ELSE [callback EXCEPT
                   !.invocations = Append(@, ThenArguments(callback.call.result)),
                   !.pc = IF throws THEN "catching" ELSE "done",
                   !.thrown = IF throws THEN "thrown by the callback" ELSE NoError]
    /\ UNCHANGED <<ocrVars, parse, adapter, retry, batch>>

\* The reaction of .catch runs (ocr.ts:278): it invokes the callback with the
\* error alone; what the callback throws now is an unhandled rejection
CatchReaction(throws) ==
    /\ callback.pc = "catching"
    /\ callback' = [callback EXCEPT
                       !.invocations = Append(@, [error |-> callback.thrown,
                                                  result |-> NoResult]),
                       !.pc = "done", !.unhandled = throws]
    /\ UNCHANGED <<ocrVars, parse, adapter, retry, batch>>

-----------------------------------------------------------------------------
(* Specifications *)

\* Construction configurations (OcrConfig, types/index.ts:35-51), with an
\* identity that is none of the five
ProviderInputs == AIProviders \cup {"mistral"}
ApiKeys == {Undefined, "", " ", "sk-key"}
Models == {Undefined, "", "custom-model"}
VertexConfigs ==
    {NoVertexConfig, [project |-> "", location |-> ""],
     [project |-> "proj", location |-> ""], [project |-> "proj", location |-> "us"]}
Configs ==
    [provider : ProviderInputs, apiKey : ApiKeys, model : Models,
     vertexConfig : VertexConfigs]

\* Construction and reconfiguration alone, over every configuration
NextConfig ==
    \/ \E cfg \in Configs : Construct(cfg)
    \/ \E p \in ProviderInputs, k \in ApiKeys, m \in Models : SetProvider(p, k, m)

SpecConfig == Init /\ [][NextConfig]_vars

\* The extraction calls of one caller, issued one after another on an object
\* built for gemini, while setProvider switches it to claude or (in vain) to
\* vertex and time passes.  Each call slot serves one call.
RunConfigs ==
    [provider : {"gemini"}, apiKey : {"sk-key"}, model : {Undefined},
     vertexConfig : {NoVertexConfig}]
RunSources == [scheme : Schemes, base : {"a"}, ext : Exts]
RunFileNames == [base : {"a"}, ext : Exts]

Next ==
    \/ \E cfg \in RunConfigs : Construct(cfg)
    \/ \E p \in {"claude", "vertex"} : SetProvider(p, "sk-key", Undefined)
    \/ \E i \in CallIds, s \in RunSources, o \in Options : Extract(i, s, o)
    \/ \E i \in CallIds, f \in RunFileNames, o \in Options : ExtractFromBuffer(i, f, o)
    \/ \E i \in CallIds, f \in RunFileNames, o \in Options : ExtractFromBase64(i, f, o)
    \/ \E i \in CallIds, fs \in FsOutcomes, a \in HttpAnswers : LoadDone(i, fs, a)
    \/ \E i \in CallIds, a \in BackendAnswers : BackendDone(i, a)
    \/ \E i \in CallIds, w \in BOOLEAN : SaveDone(i, w)
    \/ Tick

Spec == Init /\ [][Next]_vars

\* JSON recovery over every value and wrapping of the model
NextParse ==
    \/ \E v \in JsonValues, k \in Wrappings, c \in BOOLEAN : GiveSerialized(v, k, c)
    \/ \E t \in RawTexts : GiveRaw(t)
    \/ Recover

SpecParse == Init /\ [][NextParse]_vars

\* Each of the five adapters, built with a model of its own or the default,
\* serving one request
AdapterModels == {Undefined, "gpt-5-mini", "o1-mini", "o3", "gpt-4o", "my-o1"}
AdapterConfigs ==
    [provider : AIProviders, apiKey : {"sk-key"}, model : AdapterModels,
     vertexConfig : {[project |-> "proj", location |-> "us"]}]

NextAdapter ==
    \/ \E cfg \in AdapterConfigs : Construct(cfg)
    \/ \E m \in {"extractText", "extractJson"}, mc \in ModelConfigs : AdapterInvoke(m, mc)
    \/ \E a \in BackendAnswers : AdapterSettle(a)

SpecAdapter == Init /\ [][NextAdapter]_vars

\* The documents, options and answers of the world used with OcrAIPromise:
\* two documents that load and one that does not; a text call, a json call
\* without schema and one with a schema; a file that is there or not; a backend
\* that fails or answers one of two texts
PromiseSources ==
    {[scheme |-> "", base |-> "a", ext |-> ".pdf"],
     [scheme |-> "", base |-> "b", ext |-> ".pdf"],
     [scheme |-> "", base |-> "a", ext |-> ".xyz"]}
PromiseOptions ==
    {NoOptions, [format |-> "json", schema |-> Undefined, outputPath |-> Undefined],
     [format |-> "json", schema |-> "{total: number}", outputPath |-> Undefined]}
Worlds ==
    {[NoWorld EXCEPT !.fs = f, !.answer = a] :
        f \in {"ok", "ENOENT"},
        a \in {[kind |-> "error", text |-> <<>>, usage |-> NoUsage],
               [kind |-> "ok", text |-> <<"{", "}">>, usage |-> NoUsage],
               [kind |-> "ok", text |-> <<"[", "1", "]">>, usage |-> NoUsage]}}

\* delayMs: no delay, the default (ocr.ts:375), a longer one
DefaultDelayMs == 1000
Delays == {0, DefaultDelayMs, 2 * DefaultDelayMs}

\* extractWithRetry on an object built for gemini
NextRetry ==
    \/ \E cfg \in RunConfigs : Construct(cfg)
    \/ \E s \in PromiseSources, o \in PromiseOptions, n \in -1..MaxRetries,
          d \in Delays :
          ExtractWithRetry(s, o, n, d)
    \/ \E w \in Worlds : AttemptStep(w)
    \/ DelayDone

SpecRetry == Init /\ [][NextRetry]_vars

\* extractMany and extractBatch on an object built for gemini
BatchItems == [source : PromiseSources, options : PromiseOptions]

NextBatch ==
    \/ \E cfg \in RunConfigs : Construct(cfg)
    \/ \E ss \in SeqsUpTo(PromiseSources, MaxItems), o \in PromiseOptions :
          ExtractMany(ss, o)
    \/ \E items \in SeqsUpTo(BatchItems, MaxItems) : ExtractBatch(items)
    \/ \E i \in 1..MaxItems, w \in Worlds : ElementStep(i, w)

SpecBatch == Init /\ [][NextBatch]_vars

\* The three callback-capable methods on an object built for gemini, with a
\* callback that returns or throws, and without a callback
NextCallback ==
    \/ \E cfg \in RunConfigs : Construct(cfg)
    \/ \E s \in PromiseSources, o \in PromiseOptions, w \in BOOLEAN :
          PromiseExtract(s, o, w)
    \/ \E f \in RunFileNames, o \in PromiseOptions, w \in BOOLEAN :
          PromiseExtractFromBuffer(f, o, w)
    \/ \E f \in RunFileNames, o \in PromiseOptions, w \in BOOLEAN :
          PromiseExtractFromBase64(f, o, w)
    \/ \E w \in Worlds : UnderlyingStep(w)
    \/ \E t \in BOOLEAN : ThenReaction(t)
    \/ \E t \in BOOLEAN : CatchReaction(t)

SpecCallback == Init /\ [][NextCallback]_vars

-----------------------------------------------------------------------------
(* Properties *)

Settled(i) == calls[i].pc = "done"
Resolved(i) == Settled(i) /\ calls[i].settled = "resolved"
Succeeded(i) == Resolved(i) /\ calls[i].result.success
Failed(i) == Resolved(i) /\ ~calls[i].result.success

\* getProvider() and getModel() (ocr.ts:212-221)
getProvider == provider.name
getModel == provider.model

\* The local `format` of processExtraction (ocr.ts:127)
FormatOf(i) == OrElse(OptFormat(calls[i].options), "text")

FailureStages == {"load", "supports", "schema", "adapter", "recovery", "persistence"}

\* C1: the promise of extract, extractFromBuffer and extractFromBase64 never
\* rejects; it resolves to a result object, and a failure at any stage is a
\* result with success = false, an error message and a code.
C1_NeverRejects ==
    \A i \in CallIds :
        /\ calls[i].settled # "rejected"
        /\ Settled(i) =>
              /\ calls[i].settled = "resolved"
              /\ calls[i].result # NoResult
              /\ "success" \in DOMAIN calls[i].result
              /\ calls[i].failedAt \in FailureStages =>
                    /\ ~calls[i].result.success
                    /\ {"error", "code"} \subseteq DOMAIN calls[i].result

\* A call whose saveToFile failed, after loading and the adapter call went well
C1_Witness ==
    \E i \in CallIds :
        /\ Settled(i)
        /\ calls[i].failedAt = "persistence"
        /\ calls[i].settled = "resolved"
        /\ calls[i].result.code = "EXTRACTION_ERROR"

\* C2: format 'json' without a schema, on a document that loaded and whose
\* category the adapter supports, resolves to MISSING_SCHEMA, and neither
\* extractText nor extractJson is invoked at any point of the call.
C2_MissingSchema ==
    \A i \in CallIds :
        (/\ calls[i].file # NoFile
         /\ calls[i].checkedOn # NoProvider
         /\ supportsFileType(calls[i].checkedOn.name, calls[i].file.type)
         /\ FormatOf(i) = "json"
         /\ Falsy(OptSchema(calls[i].options)))
        => /\ Failed(i)
           /\ calls[i].result.code = "MISSING_SCHEMA"
           /\ calls[i].textCalls = 0
           /\ calls[i].jsonCalls = 0
           /\ calls[i].backendCalls = 0

C2_Witness ==
    \E i \in CallIds :
        /\ Failed(i)
        /\ calls[i].file # NoFile
        /\ calls[i].options # NoOptions
        /\ calls[i].options.format = "json"
        /\ calls[i].options.schema = Undefined
        /\ calls[i].result.code = "MISSING_SCHEMA"

\* C3: the successful result of a call carries in metadata.provider the
\* provider that was active when the call was issued, also when setProvider
\* has switched the orchestrator while the call was in flight.
C3_ProviderAtIssue ==
    \A i \in CallIds :
        Succeeded(i) => calls[i].result.metadata.provider = calls[i].issuedOn.name

\* C4: after a setProvider that returned normally the new adapter is the
\* active one, with the requested identity and model, and a call issued and
\* completed with no further adapter replacement is served by the adapter
\* active at its issue and names that adapter's identity and model.
C4_NewProviderServes ==
    /\ setResult = "returned" =>
          /\ getProvider = config.provider
          /\ getModel = OrElse(config.model, DefaultModel(config.provider))
          /\ provider.id = created
    /\ \A i \in CallIds :
          (Succeeded(i) /\ ~calls[i].swapped) =>
              /\ calls[i].servedBy = calls[i].issuedOn
              /\ calls[i].result.metadata.provider = calls[i].issuedOn.name
              /\ calls[i].result.metadata.model = calls[i].issuedOn.model

\* A call issued after setProvider('claude') returned, and succeeded
C4_Witness ==
    \E i \in CallIds :
        /\ Succeeded(i)
        /\ ~calls[i].swapped
        /\ setResult = "returned"
        /\ calls[i].issuedOn.id > 1
        /\ calls[i].issuedOn = provider
        /\ calls[i].result.metadata.provider = "claude"
        /\ calls[i].result.metadata.model = "claude-sonnet-4-20250514"

\* Credentials that are present and not blank
PresentKey(apiKey) == ~Falsy(apiKey) /\ ~TrimsToEmpty(apiKey)

\* C5: for each of the five identities, setProvider with that identity and
\* valid credentials returns, and right after it getProvider() is the
\* requested identity and getModel() the supplied or the default model.
C5_SetProviderFiveIdentities ==
    (/\ switches > 0
     /\ config.provider \in AIProviders
     /\ PresentKey(config.apiKey))
    => /\ setResult = "returned"
       /\ getProvider = config.provider
       /\ getModel = OrElse(config.model, DefaultModel(config.provider))

\* The extension alone decides that the document has no supported category
UnsupportedByExtension(i) ==
    /\ calls[i].source # NoSource
    /\ ~isUrl(calls[i].source)
    /\ Falsy(Lookup(FILE_TYPE_CATEGORIES, ToLowerCase(calls[i].source.ext)))

\* C6: extract on a document whose category is unsupported, as the file
\* extension alone tells, resolves to UNSUPPORTED_FILE_TYPE and no backend
\* call is made.  (A file that cannot be found or read is left aside.)
C6_UnsupportedByExtension ==
    \A i \in CallIds :
        (/\ Settled(i)
         /\ UnsupportedByExtension(i)
         /\ calls[i].result.error \notin {"File not found", "Path is not a file"})
        => /\ Failed(i)
           /\ calls[i].result.code = "UNSUPPORTED_FILE_TYPE"
           /\ calls[i].backendCalls = 0

\* The default models the documentation gives (README.md:257-263,
\* types/index.ts:39-45)
DocumentedDefault(name) ==
    CASE name = "gemini" -> "gemini-1.5-flash"
      [] name = "openai" -> "gpt-4o"
      [] name = "claude" -> "claude-sonnet-4-20250514"
      [] name = "grok"   -> "grok-2-vision-1212"
      [] name = "vertex" -> "gemini-2.0-flash"

\* Valid credentials: an API key for the four key-based identities, a
\* vertexConfig with project and location for vertex (no API key needed)
ValidCredentials(cfg) ==
    /\ cfg.provider \in AIProviders
    /\ IF cfg.provider = "vertex"
       THEN /\ cfg.vertexConfig # NoVertexConfig
            /\ ~Falsy(cfg.vertexConfig.project)
            /\ ~Falsy(cfg.vertexConfig.location)
       ELSE PresentKey(cfg.apiKey)

\* C7: constructing with valid credentials succeeds for each of the five
\* identities; getProvider() is the requested identity and getModel() the
\* supplied model or, when none (or an empty one) is supplied, the documented
\* default.
C7_ConstructValid ==
    (ctor # "unbuilt" /\ switches = 0 /\ ValidCredentials(config))
    => /\ ctor = "ok"
       /\ getProvider = config.provider
       /\ getModel = IF Falsy(config.model) THEN DocumentedDefault(config.provider)
                     ELSE config.model

\* vertex built from a vertexConfig, with no API key and no model
C7_Witness ==
    /\ ctor = "ok"
    /\ switches = 0
    /\ config.provider = "vertex"
    /\ config.apiKey = Undefined
    /\ config.model = Undefined
    /\ getProvider = "vertex"
    /\ getModel = "gemini-2.0-flash"

\* C8: constructing with missing or empty required credentials, or with an
\* unrecognized identity, throws from the constructor.
C8_ConstructInvalidThrows ==
    (ctor # "unbuilt" /\ switches = 0 /\ ~ValidCredentials(config))
    => /\ ctor = "threw"
       /\ provider = NoProvider

\* C9: a result is exactly one of the two variants.  A failed result holds
\* an error and a code and nothing else, also when the adapter had produced
\* content before a later stage failed; a successful result holds the whole
\* content or data the adapter returned and the metadata, with a
\* processing time that is not negative.
C9_TaggedUnion ==
    \A i \in CallIds :
        Resolved(i) =>
            LET r == calls[i].result
            IN  IF r.success
                THEN /\ calls[i].produced # NoResult
                     /\ IF r.format = "text"
                        THEN /\ DOMAIN r = {"success", "format", "content", "metadata"}
                             /\ r.content = calls[i].produced.content
                        ELSE /\ r.format = "json"
                             /\ DOMAIN r = {"success", "format", "data", "metadata"}
                             /\ r.data = calls[i].produced.data
                     /\ {"provider", "model", "fileType", "fileName", "processingTimeMs"}
                            \subseteq DOMAIN r.metadata
                     /\ r.metadata.provider \in AIProviders
                     /\ r.metadata.fileType = calls[i].file.type
                     /\ r.metadata.fileName = calls[i].file.name
                     /\ r.metadata.processingTimeMs >= 0
                ELSE DOMAIN r = {"success", "error", "code"}

\* The adapter had returned content when saveToFile failed
C9_Witness ==
    \E i \in CallIds :
        /\ Failed(i)
        /\ calls[i].produced # NoResult
        /\ calls[i].failedAt = "persistence"
        /\ DOMAIN calls[i].result = {"success", "error", "code"}

\* C10: the code of a failed result is one of the three codes;
\* UNSUPPORTED_FILE_TYPE only when supportsFileType returned false,
\* MISSING_SCHEMA only when the format is 'json' and the schema is absent, and
\* a failure of the loader, the adapter call, JSON recovery or persistence
\* gets EXTRACTION_ERROR.
C10_ErrorCodes ==
    \A i \in CallIds :
        Failed(i) =>
            LET code == calls[i].result.code
            IN  /\ code \in {"UNSUPPORTED_FILE_TYPE", "MISSING_SCHEMA", "EXTRACTION_ERROR"}
                /\ code = "UNSUPPORTED_FILE_TYPE" =>
                      /\ calls[i].failedAt = "supports"
                      /\ calls[i].file # NoFile
                      /\ ~supportsFileType(calls[i].checkedOn.name, calls[i].file.type)
                /\ code = "MISSING_SCHEMA" =>
                      /\ calls[i].failedAt = "schema"
                      /\ FormatOf(i) = "json"
                      /\ Falsy(OptSchema(calls[i].options))
                /\ calls[i].failedAt \in {"load", "adapter", "recovery", "persistence"} =>
                      code = "EXTRACTION_ERROR"

\* A failed result with each kind of code origin is reachable; this one is the
\* rarest: supportsFileType returned false
C10_Witness ==
    \E i \in CallIds :
        /\ Failed(i)
        /\ calls[i].result.code = "UNSUPPORTED_FILE_TYPE"
        /\ calls[i].failedAt = "supports"

\* C11: parseJsonResponse gives back the value V from a serialization of V,
\* be it bare, wrapped in a fence tagged json with newlines, in an untagged
\* fence, with white space around it, or with a leading fence only; one fence
\* at most is removed at each end, so a text in two fences is not recovered.
C11_RoundTrip ==
    parse.pc = "parsed" =>
        /\ parse.wrap \in {"bare", "json-fence", "fence", "padded", "open"} =>
              /\ parse.out.ok
              /\ parse.out.value = parse.value
        /\ parse.wrap = "double" => ~parse.out.ok

\* An array holding a string of three backticks, recovered from a tagged fence
C11_Witness ==
    /\ parse.pc = "parsed"
    /\ parse.wrap = "json-fence"
    /\ parse.value = JsonArr(<<JsonStr(Fence)>>)
    /\ parse.out.ok
    /\ parse.out.value = parse.value

\* C12: a backend text that is not JSON once the fences are stripped makes
\* the call a failed result, never a success and never a rejection; the
\* message is that of the JSON recovery error and quotes the first 200
\* characters, at most, of the text as the backend sent it.
C12_ParseFailure ==
    \A i \in CallIds :
        /\ (/\ Settled(i)
            /\ calls[i].method = "extractJson"
            /\ calls[i].answer.kind = "ok"
            /\ calls[i].failedAt # "adapter"
            /\ ~parseJsonResponse(IF calls[i].servedBy.name # "gemini"
                                     /\ calls[i].answer.text = <<>>
                                  THEN <<"{", "}">> ELSE calls[i].answer.text).ok)
           => calls[i].failedAt = "recovery"
        /\ calls[i].failedAt = "recovery" =>
              LET text == calls[i].answer.text
              IN  /\ Failed(i)
                  /\ calls[i].result.code = "EXTRACTION_ERROR"
                  /\ calls[i].result.error = "Failed to parse JSON response"
                  /\ Len(calls[i].preview) <= 200
                  /\ calls[i].preview =
                        SubSeq(text, 1, IF Len(text) < 200 THEN Len(text) ELSE 200)

\* A fenced text longer than the preview: the message quotes its first 200
\* characters, the opening fence among them
C12_Witness ==
    \E i \in CallIds :
        /\ Failed(i)
        /\ calls[i].failedAt = "recovery"
        /\ calls[i].answer.text = FencedLongText
        /\ Len(calls[i].preview) = 200
        /\ StartsWith(calls[i].preview, FenceJson)

\* The token limits a request carries, whatever the parameter
LimitsSent == adapter.limits.max_tokens \cup adapter.limits.max_completion_tokens
                  \cup adapter.limits.maxOutputTokens

\* C13: every request of every adapter, for extractText and extractJson alike,
\* carries an output-token limit: modelConfig.maxTokens when set, and 16384
\* otherwise.
C13_AlwaysCapped ==
    adapter.pc # "idle" =>
        /\ LimitsSent # {}
        /\ LimitsSent = IF MaxTokens(adapter.modelConfig) # {}
                        THEN MaxTokens(adapter.modelConfig)
                        ELSE {16384}

\* C14: when outputPath is set and the adapter call succeeded, saveToFile is
\* invoked once, with that path, and is handed the content the adapter
\* returned: the string of a text result, the JSON serialization of the data
\* of a json result, the same text or data that a successful result then
\* carries; when outputPath is not set, or the adapter call did not succeed,
\* saveToFile is not invoked.
C14_SavesReturnedContent ==
    \A i \in CallIds :
        LET c == calls[i]
            path == OptOutputPath(c.options)
        IN  IF c.produced # NoResult /\ ~Falsy(path)
            THEN /\ Len(c.saves) = 1
                 /\ c.saves[1].path = path
                 /\ c.method = "extractText" =>
                       /\ c.saves[1].content = c.produced.content
                       /\ Succeeded(i) => c.saves[1].content = c.result.content
                 /\ c.method = "extractJson" =>
                       /\ JsonParse(c.saves[1].content) =
                              [ok |-> TRUE, value |-> c.produced.data]
                       /\ Succeeded(i) => JsonParse(c.saves[1].content).value = c.result.data
            ELSE c.saves = <<>>

\* A text result that was written to the path asked for
C14_Witness ==
    \E i \in CallIds :
        /\ Succeeded(i)
        /\ OptOutputPath(calls[i].options) = "out/result"
        /\ calls[i].result.format = "text"
        /\ calls[i].result.content # <<>>
        /\ calls[i].saves = <<[path |-> "out/result", content |-> calls[i].result.content]>>

\* C15: when saveToFile fails after the adapter has returned, the call
\* neither rejects nor returns the success: it resolves to a failed result
\* with code EXTRACTION_ERROR and the message of the persistence error.
C15_PersistenceFailure ==
    \A i \in CallIds :
        (Settled(i) /\ calls[i].saved = "failed") =>
            /\ calls[i].produced # NoResult
            /\ calls[i].settled = "resolved"
            /\ ~calls[i].result.success
            /\ calls[i].result.code = "EXTRACTION_ERROR"
            /\ calls[i].result.error = "EACCES: write failed"

\* The data of a json call had been recovered when the write failed
C15_Witness ==
    \E i \in CallIds :
        /\ Settled(i)
        /\ calls[i].saved = "failed"
        /\ calls[i].method = "extractJson"
        /\ calls[i].produced.data = JsonArr(<<JsonNum(1)>>)
        /\ calls[i].result.code = "EXTRACTION_ERROR"

\* C16: with retries >= 0 the attempts of extractWithRetry run one after
\* another and are retries + 1 at most; no attempt follows a success, which
\* is returned at once; when every attempt has failed, the failed result of
\* the last one is returned.
C16_RetryUntilSuccess ==
    0 <= retry.retries =>
        LET n == Len(retry.results)
        IN  /\ retry.pc # "rejected"
            /\ n <= retry.retries + 1
            /\ retry.pc \in {"attempting", "delaying"} => n <= retry.retries
            /\ \A k \in 1..(n - 1) : ~retry.results[k].success
            /\ retry.pc \in {"attempting", "delaying"} =>
                  \A k \in 1..n : ~retry.results[k].success
            /\ retry.pc = "returned" =>
                  /\ n >= 1
                  /\ retry.returned = retry.results[n]
                  /\ ~retry.returned.success => n = retry.retries + 1

\* Three attempts failed, the first and the last for different reasons
C16_Witness ==
    /\ retry.pc = "returned"
    /\ retry.retries = 2
    /\ Len(retry.results) = 3
    /\ ~retry.results[3].success
    /\ retry.results[1].error # retry.results[3].error
    /\ retry.returned = retry.results[3]

\* C17: extractMany and extractBatch resolve to as many results as there are
\* inputs; element i is the result of the extract call started for input i,
\* whatever the order in which the calls completed; a failed element is a
\* failed result at its own index, and the combined promise does not reject.
C17_GatherInOrder ==
    /\ batch.pc # "rejected"
    /\ batch.pc = "gathering" =>
          Len(batch.log) + Cardinality(batch.pending) = Len(batch.items)
    /\ batch.pc = "resolved" =>
          /\ Len(batch.returned) = Len(batch.items)
          /\ Len(batch.log) = Len(batch.items)
          /\ \A k \in 1..Len(batch.log) :
                batch.returned[batch.log[k].index] = batch.log[k].result
          /\ \A i \in 1..Len(batch.items) :
                /\ "success" \in DOMAIN batch.returned[i]
                /\ batch.returned[i].success =>
                      batch.returned[i].metadata.fileName =
                          [base |-> batch.items[i].source.base,
                           ext |-> batch.items[i].source.ext]
                /\ batch.items[i].source.ext = ".xyz" => ~batch.returned[i].success

\* The second element completed first and succeeded, the first one failed
C17_Witness ==
    /\ batch.pc = "resolved"
    /\ Len(batch.items) = 2
    /\ batch.log[1].index = 2
    /\ ~batch.returned[1].success
    /\ batch.returned[2].success
    /\ batch.returned[2].metadata.fileName.base = batch.items[2].source.base

\* The usage object of the model, mapped to the three fields of TokenUsage
MappedUsage(usage) ==
    [inputTokens |-> usage.input, outputTokens |-> usage.output,
     totalTokens |-> usage.total]

\* C18: for each adapter, a backend response without a usage object still
\* makes the adapter method succeed (when nothing else fails), with no token
\* usage in what it returns; a usage object is mapped to inputTokens,
\* outputTokens and totalTokens.
C18_TokenUsage ==
    (/\ adapter.pc \in {"returned", "threw"}
     /\ adapter.answer.kind = "ok"
     /\ adapter.outcome.stage # "recovery")
    => /\ adapter.pc = "returned"
       /\ adapter.outcome.tokens = IF adapter.answer.usage = NoUsage THEN NoTokens
                                   ELSE MappedUsage(adapter.answer.usage)

\* The two token-limit parameters of the OpenAI-compatible requests
UsesCompletionTokens(model) ==
    LET id == Spelling(model)
    IN  \/ (Len(id) >= 5 /\ SubSeq(id, 1, 5) = <<"g", "p", "t", "-", "5">>)
        \/ (Len(id) >= 2 /\ SubSeq(id, 1, 2) \in {<<"o", "1">>, <<"o", "3">>})

\* C19: a request of the openai or the grok adapter carries one token-limit
\* parameter and not the other: max_completion_tokens when the model
\* identifier starts with gpt-5, o1 or o3, and max_tokens otherwise.
C19_OneTokenParameter ==
    (adapter.pc # "idle" /\ provider.name \in {"openai", "grok"}) =>
        /\ adapter.limits.maxOutputTokens = {}
        /\ IF UsesCompletionTokens(provider.model)
           THEN /\ Cardinality(adapter.limits.max_completion_tokens) = 1
                /\ adapter.limits.max_tokens = {}
           ELSE /\ Cardinality(adapter.limits.max_tokens) = 1
                /\ adapter.limits.max_completion_tokens = {}

\* C20: the format decides the adapter method: extractText when it is absent
\* or 'text', extractJson, with the schema, when it is 'json'; one method is
\* invoked, once, in a successful call, whose result has the format asked
\* for, with the text the backend sent or the data recovered from it.
C20_DispatchOnFormat ==
    \A i \in CallIds :
        LET c == calls[i]
        IN  /\ c.method # "none" =>
                  /\ c.method = IF FormatOf(i) = "json" THEN "extractJson"
                                ELSE "extractText"
                  /\ c.method = "extractJson" => ~Falsy(OptSchema(c.options))
                  /\ c.textCalls = (IF c.method = "extractText" THEN 1 ELSE 0)
                  /\ c.jsonCalls = (IF c.method = "extractJson" THEN 1 ELSE 0)
            /\ Succeeded(i) =>
                  /\ c.textCalls + c.jsonCalls = 1
                  /\ c.result.format = (IF OptFormat(c.options) = "json" THEN "json"
                                        ELSE "text")
                  /\ c.result.format = "text" =>
                        /\ c.textCalls = 1
                        /\ c.result.content = c.answer.text
                  /\ c.result.format = "json" =>
                        /\ c.jsonCalls = 1
                        /\ c.result.data \in JsonValues
                        /\ c.result.data = c.produced.data

\* A json call with a schema whose data were recovered from a fenced answer
C20_Witness ==
    \E i \in CallIds :
        /\ Succeeded(i)
        /\ OptFormat(calls[i].options) = "json"
        /\ calls[i].method = "extractJson"
        /\ calls[i].result.format = "json"
        /\ calls[i].result.data = JsonArr(<<JsonNum(1)>>)

\* C21: the adapter whose extractText or extractJson an extract call invokes
\* is the adapter that was active when extract was invoked, also when
\* setProvider ran while the call was suspended on loading the document.
C21_ServedByAdapterAtIssue ==
    \A i \in CallIds :
        calls[i].servedBy # NoProvider => calls[i].servedBy = calls[i].issuedOn

\* C22: the adapter whose extraction method a call invokes is the adapter
\* whose supportsFileType the call asked, under every interleaving with
\* setProvider; the adapter is asked in every call that invokes a method.
C22_CheckedAdapterServes ==
    \A i \in CallIds :
        /\ calls[i].servedBy # NoProvider => calls[i].servedBy = calls[i].checkedOn
        /\ calls[i].method # "none" => calls[i].servedBy # NoProvider

\* A call of extract that setProvider overtook while it was loading: it asked
\* and invoked the new adapter, not the one it was issued on
C22_Witness ==
    \E i \in CallIds :
        /\ calls[i].api = "extract"
        /\ calls[i].swapped
        /\ calls[i].method # "none"
        /\ calls[i].checkedOn # calls[i].issuedOn
        /\ calls[i].servedBy = calls[i].checkedOn

\* C23: for each adapter, extractJson fails with the parse error whenever the
\* text of the backend's response, fences stripped and trimmed, is not valid
\* JSON, an empty text included; it returns no value in its place.
C23_ParseErrorNoSubstitute ==
    (/\ adapter.pc \in {"returned", "threw"}
     /\ adapter.method = "extractJson"
     /\ adapter.answer.kind = "ok"
     /\ extractTokenUsage(provider.name, adapter.answer.usage).ok
     /\ ~parseJsonResponse(adapter.answer.text).ok)
    => /\ adapter.pc = "threw"
       /\ adapter.outcome.stage = "recovery"
       /\ adapter.outcome.data = NoJson

\* C24: the stages of a call run in the order load, category check, schema
\* check, adapter call, persistence; the first stage that fails decides the
\* result, whatever a later stage would have said, and no later stage runs:
\* a load failure is reported also when format is 'json' without a schema, an
\* unsupported category is UNSUPPORTED_FILE_TYPE also when the schema is
\* missing, and neither the adapter nor saveToFile is called after a failure.
C24_StagesInOrder ==
    \A i \in CallIds :
        LET c == calls[i]
            asked == c.checkedOn # NoProvider
            noSchema == FormatOf(i) = "json" /\ Falsy(OptSchema(c.options))
        IN  /\ asked => c.file # NoFile
            /\ c.backendCalls > 0 =>
                  /\ asked
                  /\ supportsFileType(c.checkedOn.name, c.file.type)
                  /\ ~noSchema
            /\ c.saves # <<>> => (c.backendCalls = 1 /\ c.produced # NoResult)
            /\ (Settled(i) /\ c.file = NoFile) =>
                  /\ c.failedAt = "load"
                  /\ Failed(i)
                  /\ c.result.code = "EXTRACTION_ERROR"
            /\ (Settled(i) /\ asked /\ ~supportsFileType(c.checkedOn.name, c.file.type)) =>
                  /\ c.failedAt = "supports"
                  /\ Failed(i)
                  /\ c.result.code = "UNSUPPORTED_FILE_TYPE"
            /\ c.failedAt \in {"load", "supports", "schema"} =>
                  (c.backendCalls = 0 /\ c.saves = <<>>)
            /\ c.failedAt = "schema" =>
                  (asked /\ supportsFileType(c.checkedOn.name, c.file.type))
            /\ c.failedAt \in {"adapter", "recovery"} =>
                  (c.backendCalls = 1 /\ c.saves = <<>> /\ c.saved = "none")
            /\ c.failedAt = "persistence" =>
                  (c.backendCalls = 1 /\ Len(c.saves) = 1 /\ c.saved = "failed")

\* A call with format 'json' and no schema whose document did not load: the
\* load failure is what its result reports
C24_Witness ==
    \E i \in CallIds :
        /\ Failed(i)
        /\ FormatOf(i) = "json"
        /\ Falsy(OptSchema(calls[i].options))
        /\ calls[i].failedAt = "load"
        /\ calls[i].result.code = "EXTRACTION_ERROR"

\* C25: every wait of extractWithRetry lasts delayMs; one wait separates two
\* consecutive attempts, none precedes the first attempt and none follows a
\* success or the last failed attempt: once it has returned, after at least
\* one attempt, the waits are one fewer than the attempts.
C25_FixedDelayBetweenAttempts ==
    /\ \A k \in 1..Len(retry.waits) : retry.waits[k] = retry.delayMs
    /\ retry.pc \in {"attempting", "delaying"} =>
          Len(retry.waits) = Len(retry.results)
    /\ retry.pc = "attempting" => Len(retry.waits) = retry.attempt
    /\ (retry.pc = "returned" /\ retry.retries >= 0) =>
          /\ Len(retry.results) >= 1
          /\ Len(retry.waits) = Len(retry.results) - 1

\* Three failed attempts with the default delay, and two waits of that delay
C25_Witness ==
    /\ retry.pc = "returned"
    /\ retry.delayMs = DefaultDelayMs
    /\ Len(retry.results) = 3
    /\ retry.waits = <<DefaultDelayMs, DefaultDelayMs>>

\* C29: for every integer retries, negative ones included, what
\* extractWithRetry resolves to is an extraction result, a success or a
\* failure, never undefined.
C29_ResolvesToAResult ==
    retry.pc = "returned" =>
        /\ retry.returned # NoResult
        /\ "success" \in DOMAIN retry.returned

\* The file descriptor loadFile builds for a source that is there
OwnFile(item) ==
    loadFile([base |-> item.source.base, ext |-> item.source.ext], "ok").file

\* C26: extract calls running at the same time on one orchestrator are
\* isolated: under every interleaving the format, the content or data,
\* metadata.fileName and metadata.fileType of the result of a call come from
\* the document, the options and the backend answer of that call alone.
C26_CallsIsolated ==
    \A i \in 1..Len(batch.calls) :
        LET c == batch.calls[i]
            item == batch.items[i]
        IN  /\ c.source = item.source
            /\ c.options = item.options
            /\ (c.pc = "done" /\ c.settled = "resolved" /\ c.result.success) =>
                  /\ c.result.format = OrElse(OptFormat(item.options), "text")
                  /\ c.result.metadata.fileName = OwnFile(item).name
                  /\ c.result.metadata.fileType = OwnFile(item).type
                  /\ c.result.format = "text" => c.result.content = c.answer.text
                  /\ c.result.format = "json" =>
                        c.result.data = parseJsonResponse(c.answer.text).value
            /\ (batch.pc = "resolved" /\ c.pc = "done") => batch.returned[i] = c.result

\* Two calls in flight together, a text call on one document and a json call
\* on another with another answer, the second completing first
C26_Witness ==
    /\ batch.pc = "resolved"
    /\ Len(batch.items) = 2
    /\ batch.log[1].index = 2
    /\ batch.returned[1].success
    /\ batch.returned[2].success
    /\ batch.returned[1].format = "text"
    /\ batch.returned[2].format = "json"
    /\ batch.returned[1].metadata.fileName.base = "a"
    /\ batch.returned[2].metadata.fileName.base = "b"
    /\ batch.returned[1].content = <<"{", "}">>
    /\ batch.returned[2].data = JsonArr(<<JsonNum(1)>>)

\* C27: with a callback the three methods return undefined and the callback
\* is invoked once per call, with (null, result) after a success and with
\* (Error of result.error, result) after a failure, and never a second time,
\* also when the callback throws; without a callback they return the promise
\* of the underlying call and invoke nothing.
C27_CallbackOnce ==
    /\ callback.pc # "idle" =>
          callback.gave = IF callback.withCallback THEN "undefined" ELSE "promise"
    /\ ~callback.withCallback => callback.invocations = <<>>
    /\ Len(callback.invocations) <= 1
    /\ (callback.withCallback /\ callback.pc = "done") =>
          /\ Len(callback.invocations) = 1
          /\ callback.invocations[1].result = callback.call.result
          /\ callback.invocations[1].error =
                IF callback.call.result.success THEN "null"
                ELSE callback.call.result.error

\* C28: a setProvider call that throws leaves the object as it was, so in
\* every state of a built object the provider of the stored configuration is
\* the name of the active adapter, and the model of the adapter is the one
\* the stored configuration asks for.
C28_ConfigMatchesAdapter ==
    ctor = "ok" =>
        /\ config.provider = getProvider
        /\ getModel = OrElse(config.model, DefaultModel(config.provider))

\* C30: the step in which a call builds its successful result takes
\* metadata.provider and metadata.model from the adapter active in that step,
\* both from that one instance, and the result the call resolves to after
\* saving is the one it built: under every interleaving with setProvider a
\* result pairs the name and the model of one adapter.
C30_NameAndModelOfOneAdapter ==
    [][\A i \in CallIds :
          /\ (/\ calls[i].pc = "extracting"
              /\ calls'[i].pc = "saving" \/ calls'[i].settled = "resolved"
              /\ (IF calls'[i].pc = "saving" THEN calls'[i].built
                  ELSE calls'[i].result).success)
             => LET result == IF calls'[i].pc = "saving" THEN calls'[i].built
                              ELSE calls'[i].result
                IN  /\ result.metadata.provider = provider.name
                    /\ result.metadata.model = provider.model
          /\ (/\ calls[i].pc = "saving"
              /\ calls'[i].settled = "resolved"
              /\ calls'[i].result.success)
             => calls'[i].result = calls[i].built]_vars

\* A call served by the gemini adapter, overtaken by setProvider('claude')
\* while the backend was working: its result names claude and claude's model
C30_Witness ==
    \E i \in CallIds :
        /\ Succeeded(i)
        /\ calls[i].swapped
        /\ calls[i].servedBy.name = "gemini"
        /\ calls[i].result.metadata.provider = "claude"
        /\ calls[i].result.metadata.model = DefaultModel("claude")

====
